---- MODULE Spec2Model ----
(***************************************************************************)
(* State-machine model of src/server.js: a WebSocket arena server with     *)
(* per-IP admission, per-socket rate limiting, a shared player store, the  *)
(* select / move / attack message handlers, the close handler and the      *)
(* heartbeat timer.  Node runs every handler to completion, so each        *)
(* handler is one atomic action.                                           *)
(***************************************************************************)
EXTENDS Integers, Sequences, FiniteSets, TLC

\* ------------------------------------------------------------------------
\* Program constants (src/server.js)
\* ------------------------------------------------------------------------
MAX_MSGS_PER_SEC == 40
HEARTBEAT_MS == 15000
RATE_WINDOW_MS == 1000
ARENA == [width |-> 1935, height |-> 1300, padding |-> 200]
ATTACK_RANGE == 50
ATTACK_COOLDOWN_MS == 500
DMG == 15
FULL_HP == 100
START_LIVES == 2
CODE_PERMANENT == 4001
CODE_ACTIVE == 4002
CODE_RATE == 4003

\* ------------------------------------------------------------------------
\* Bounds of the model
\* ------------------------------------------------------------------------
\* Date.now() when the server starts; every later reading is >= this one.
StartTime == 1000
\* The clock is followed millisecond-accurately for this long after the start.
MaxElapsed == 500
\* Heartbeat periods followed after that.
MaxBeats == 1
\* Number of connection attempts followed.
MaxConns == 2
\* Math.random() is modelled as u / RandDen for u in 0 .. RandDen-1.
RandDen == 2
\* Messages a client sends per limiter window in the scenarios that are not
\* about the rate limiter.
MaxBurst == 1

\* ------------------------------------------------------------------------
\* Pure helpers
\* ------------------------------------------------------------------------
Max(a, b) == IF a >= b THEN a ELSE b
Min(a, b) == IF a <= b THEN a ELSE b

\* const MOVE_CLAMP = (v, min, max) => Math.max(min, Math.min(max, v));
MOVE_CLAMP_NoUpper(v, min, max) == Max(min, v)
MOVE_CLAMP(v, min, max) == Max(min, Min(max, v))

\* Math.floor(Math.random() * (dim - padding * 2) + padding), with
\* Math.random() = u / RandDen.  padding is an integer, so the floor of the
\* sum is the floor of the product plus padding.
RandomCoord_NoPadding(u, dim) == (u * (dim - ARENA.padding * 2)) \div RandDen
RandomCoord(u, dim) ==
  ((u * (dim - ARENA.padding * 2)) \div RandDen) + ARENA.padding

Rand == 0 .. (RandDen - 1)

\* The values a JSON field can hold, as far as Number() tells them apart.
\* v is the number itself, or the number a numeric string spells.
JNum(n) == [t |-> "number", v |-> n]
JNumStr(n) == [t |-> "numeric_string", v |-> n]
JEmptyStr == [t |-> "empty_string", v |-> 0]
JWord == [t |-> "other_string", v |-> 0]
JNull == [t |-> "null", v |-> 0]
JTrue == [t |-> "true", v |-> 0]
JUndefined == [t |-> "undefined", v |-> 0]
JHuge == [t |-> "number_1e999", v |-> 0]

\* Number(value) followed by Number.isFinite: the number, or not finite
\* (NaN for undefined and non-numeric strings, Infinity for 1e999).
ToNumber(j) ==
  CASE j.t = "number" -> [finite |-> TRUE, v |-> j.v]
    [] j.t = "numeric_string" -> [finite |-> TRUE, v |-> j.v]
    [] j.t = "empty_string" -> [finite |-> TRUE, v |-> 0]
    [] j.t = "null" -> [finite |-> TRUE, v |-> 0]
    [] j.t = "true" -> [finite |-> TRUE, v |-> 1]
    [] OTHER -> [finite |-> FALSE, v |-> 0]

\* Math.hypot(dx, dy) <= ATTACK_RANGE, on integer coordinates.
InRange_Strict(ax, ay, tx, ty) ==
  (ax - tx) * (ax - tx) + (ay - ty) * (ay - ty) < ATTACK_RANGE * ATTACK_RANGE
InRange(ax, ay, tx, ty) ==
  (ax - tx) * (ax - tx) + (ay - ty) * (ay - ty) <= ATTACK_RANGE * ATTACK_RANGE

\* getClientIP: the first X-Forwarded-For value if the header is present
\* and that value is not empty, else the transport address; an IPv4-mapped
\* "::ffff:" prefix is stripped.  An address is [mapped, addr]: the text
\* addr, with the prefix before it when mapped.
Truthy(a) == a.mapped \/ a.addr # ""
getClientIP(req) ==
  LET raw == IF req.xfwd # <<>> /\ Truthy(req.xfwd[1])
             THEN req.xfwd[1] ELSE req.remoteAddress
  IN raw.addr

\* Removal of a key from a JavaScript object, and from its key order.
DeleteKey_Keep(P, id) == P
DeleteKey(P, id) == [k \in (DOMAIN P) \ {id} |-> P[k]]
SeqWithout(K, id) == SelectSeq(K, LAMBDA k : k # id)
PutKey(P, id, rec) == [k \in (DOMAIN P) \cup {id} |-> IF k = id THEN rec ELSE P[k]]
KeysAfterPut(K, P, id) == IF id \in DOMAIN P THEN K ELSE Append(K, id)

RECURSIVE SumOver(_, _)
SumOver(f, S) ==
  IF S = {} THEN 0
  ELSE LET x == CHOOSE y \in S : TRUE IN f[x] + SumOver(f, S \ {x})

\* ------------------------------------------------------------------------
\* State
\* ------------------------------------------------------------------------
VARIABLES
  now,                    \* Date.now()
  PERMANENT_BLOCK_PER_IP, \* the admission policy option
  clients,                \* every socket accepted so far, in order of arrival
  players,                \* the player store: id -> player record
  playerKeys,             \* Object.keys(players): the ids in insertion order
  seenIPs,                \* IPs admitted so far (permanent-block policy)
  activeIPMap,            \* IP -> socket (single-session policy)
  nextBeat,               \* when the heartbeat interval fires next
  crashed,                \* an exception escaped a handler: the process died
  broadcasts,             \* payloads broadcast by the handler that ran last
  sent,                   \* payloads sent to one socket by that handler
  msgLog,                 \* per socket: arrival time -> messages received then
  lastAccepted,           \* per socket: when its last accepted attack arrived
  eliminated,             \* the identities eliminated so far
  removed                 \* per identity: the remove events broadcast for it

vars == <<now, PERMANENT_BLOCK_PER_IP, clients, players, playerKeys, seenIPs,
          activeIPMap, nextBeat, crashed, broadcasts, sent, msgLog,
          lastAccepted, eliminated, removed>>

Sockets == 1 .. Len(clients)
\* server.clients: the sockets whose close has not been emitted yet.
ServerClients == {s \in Sockets : clients[s].readyState # "CLOSED"}
\* A session: a socket that passed admission, so that its message and close
\* handlers are registered, and whose close handler has not run.
LiveSessions == {s \in ServerClients : clients[s].admitted}

InitWith(policy) ==
  /\ now = StartTime
  /\ PERMANENT_BLOCK_PER_IP = policy
  /\ clients = <<>>
  /\ players = <<>>
  /\ playerKeys = <<>>
  /\ seenIPs = {}
  /\ activeIPMap = <<>>
  /\ nextBeat = StartTime + HEARTBEAT_MS
  /\ crashed = FALSE
  /\ broadcasts = <<>>
  /\ sent = <<>>
  /\ msgLog = <<>>
  /\ lastAccepted = <<>>
  /\ eliminated = {}
  /\ removed = <<>>

\* const PERMANENT_BLOCK_PER_IP = false;
Init == InitWith(FALSE)
\* The same program built with the option set to true.
InitPermanent == InitWith(TRUE)

\* ------------------------------------------------------------------------
\* denyAndClose(socket, reason, code): send the error if the socket is open
\* (a failing send is swallowed), then start the closing handshake.
\* ------------------------------------------------------------------------
denyAndClose(sock, code) ==
  IF sock.readyState = "OPEN"
  THEN [sock EXCEPT !.readyState = "CLOSING", !.closeCode = code]
  ELSE sock

ErrorTo(s, sock, code) ==
  IF sock.readyState = "OPEN"
  THEN <<[to |-> s, type |-> "error", code |-> code]>>
  ELSE <<>>

\* ------------------------------------------------------------------------
\* server.on("connection")
\* ------------------------------------------------------------------------
\* The admission decision: 0 to admit, else the close code of the denial.
AdmissionCode_AdmitAll(ip) == 0
AdmissionCode(ip) ==
  IF PERMANENT_BLOCK_PER_IP
  THEN IF ip \in seenIPs THEN CODE_PERMANENT ELSE 0
  ELSE IF ip \in DOMAIN activeIPMap THEN CODE_ACTIVE ELSE 0

\* seenIPs.add(ip)
Remembered_Forgotten(ip) == seenIPs
Remembered(ip) == seenIPs \cup {ip}

NewPlayer_ThreeLives(ux, uy) ==
  [x |-> RandomCoord(ux, ARENA.width),
   y |-> RandomCoord(uy, ARENA.height),
   character |-> "null",
   hp |-> FULL_HP,
   lives |-> START_LIVES + 1,
   lastAttackAt |-> 0]
NewPlayer(ux, uy) ==
  [x |-> RandomCoord(ux, ARENA.width),
   y |-> RandomCoord(uy, ARENA.height),
   character |-> "null",
   hp |-> FULL_HP,
   lives |-> START_LIVES,
   lastAttackAt |-> 0]

Connection(req, ux, uy) ==
  /\ ~crashed
  /\ LET s == Len(clients) + 1
         ip == getClientIP(req)
         code == AdmissionCode(ip)
         sock == [ip |-> ip, readyState |-> "OPEN", closeCode |-> 0,
                  destroyed |-> FALSE, admitted |-> FALSE, closedAfter |-> 0,
                  unacked |-> FALSE, sendFails |-> FALSE,
                  msgCount |-> 0, lastTick |-> now, isAlive |-> TRUE,
                  playerId |-> 0, playerIP |-> "undefined"]
         playerId == now
     IN
     /\ msgLog' = Append(msgLog, <<>>)
     /\ lastAccepted' = Append(lastAccepted, -1)
     /\ broadcasts' = <<>>
     /\ IF code # 0
        THEN /\ clients' = Append(clients, denyAndClose(sock, code))
             /\ sent' = ErrorTo(s, sock, code)
             /\ UNCHANGED <<players, playerKeys, seenIPs, activeIPMap>>
        ELSE /\ clients' = Append(clients,
                  [sock EXCEPT !.admitted = TRUE, !.playerId = playerId,
                               !.playerIP = ip])
             /\ seenIPs' = IF PERMANENT_BLOCK_PER_IP
                           THEN Remembered(ip) ELSE seenIPs
             /\ activeIPMap' = IF PERMANENT_BLOCK_PER_IP
                               THEN activeIPMap
                               ELSE PutKey(activeIPMap, ip, s)
             /\ players' = PutKey(players, playerId, NewPlayer(ux, uy))
             /\ playerKeys' = KeysAfterPut(playerKeys, players, playerId)
             /\ sent' = <<[to |-> s, type |-> "init", id |-> playerId,
                           players |-> players', keys |-> playerKeys']>>
  /\ UNCHANGED <<now, PERMANENT_BLOCK_PER_IP, nextBeat, crashed, eliminated,
                 removed>>

\* ------------------------------------------------------------------------
\* broadcast
\* ------------------------------------------------------------------------
\* server.clients.forEach((c) => { if (c.readyState === OPEN) c.send(data) })
\* The sockets a broadcast sends to, in the order of server.clients; the
\* socket whose close handler is running is closed already.
Recipients(closing) ==
  {c \in ServerClients \ closing : clients[c].readyState = "OPEN"}
\* The first recipient whose send throws, 0 if none does.  Nothing catches
\* the exception: it ends the forEach, the broadcast and the handler.
Thrower(closing) ==
  LET bad == {c \in Recipients(closing) : clients[c].sendFails}
  IN IF bad = {} THEN 0 ELSE CHOOSE c \in bad : \A o \in bad : c <= o
SendThrows(closing) == Thrower(closing) # 0
\* What recipient c got of the broadcasts ev of one handler, the last of
\* which threw if any recipient's send throws.
Delivered(c, ev, closing) ==
  IF c \notin Recipients(closing) \/ ev = <<>> THEN <<>>
  ELSE IF ~SendThrows(closing) \/ c < Thrower(closing) THEN ev
  ELSE SubSeq(ev, 1, Len(ev) - 1)

\* The count of remove events per identity, after the events ev went out.
RECURSIVE Tally(_, _)
Tally(count, ev) ==
  IF ev = <<>> THEN count
  ELSE LET e == Head(ev)
           next ==
             IF e.type # "remove" THEN count
             ELSE [id \in (DOMAIN count) \cup {e.id} |->
                     (IF id \in DOMAIN count THEN count[id] ELSE 0)
                       + (IF id = e.id THEN 1 ELSE 0)]
       IN Tally(next, Tail(ev))

\* ------------------------------------------------------------------------
\* socket.on("close")
\* ------------------------------------------------------------------------
\* if (!PERMANENT_BLOCK_PER_IP && socket.playerIP) {
\*   const cur = activeIPMap.get(socket.playerIP);
\*   if (cur === socket) activeIPMap.delete(socket.playerIP); }
ReleasesSlot(s) ==
  /\ ~PERMANENT_BLOCK_PER_IP
  /\ clients[s].playerIP # ""
  /\ clients[s].playerIP \in DOMAIN activeIPMap
  /\ activeIPMap[clients[s].playerIP] = s

OnClose(s) ==
  /\ ~crashed
  /\ s \in ServerClients
  /\ LET sock == clients[s]
         had == sock.admitted /\ sock.playerId \in DOMAIN players
         mine == sock.admitted /\ ReleasesSlot(s)
     IN
     /\ clients' = [clients EXCEPT ![s].readyState = "CLOSED",
                                   ![s].closedAfter = Len(clients)]
     /\ players' = IF had THEN DeleteKey(players, sock.playerId) ELSE players
     /\ playerKeys' = IF had THEN SeqWithout(playerKeys, sock.playerId)
                      ELSE playerKeys
     /\ broadcasts' = IF had THEN <<[type |-> "remove", id |-> sock.playerId]>>
                      ELSE <<>>
     /\ crashed' = (had /\ SendThrows({s}))
     /\ activeIPMap' = IF mine /\ ~crashed'
                       THEN DeleteKey(activeIPMap, sock.playerIP)
                       ELSE activeIPMap
  /\ removed' = Tally(removed, broadcasts')
  /\ sent' = <<>>
  /\ UNCHANGED <<now, PERMANENT_BLOCK_PER_IP, seenIPs, nextBeat,
                 msgLog, lastAccepted, eliminated>>

\* ------------------------------------------------------------------------
\* The clock
\* ------------------------------------------------------------------------
Recent(log, t) == [a \in {b \in DOMAIN log : t - b < RATE_WINDOW_MS} |-> log[a]]

\* The log after one more arrival at time t.
Logged(log, t) ==
  LET r == Recent(log, t)
  IN [a \in (DOMAIN r) \cup {t} |->
        IF a = t THEN (IF t \in DOMAIN r THEN r[t] ELSE 0) + 1 ELSE r[a]]

Tick(d) ==
  /\ ~crashed
  /\ d > 0
  /\ now' = now + d
  /\ msgLog' = [s \in DOMAIN msgLog |-> Recent(msgLog[s], now')]
  /\ broadcasts' = <<>>
  /\ sent' = <<>>
  /\ UNCHANGED <<PERMANENT_BLOCK_PER_IP, clients, players, playerKeys,
                 seenIPs, activeIPMap, nextBeat, crashed, lastAccepted,
                 eliminated, removed>>

\* ------------------------------------------------------------------------
\* socket.on("message")
\* ------------------------------------------------------------------------
\* An inbound frame, by what JSON.parse and the dispatch make of it:
\*   garbage  text JSON.parse rejects
\*   null     the JSON text null
\*   scalar   a JSON number, string or boolean
\*   select / move / attack / heal   an object with that type
\*   other    an object with another type, or none
Frame(kind) ==
  [kind |-> kind, character |-> "", hasPosition |-> FALSE,
   x |-> JUndefined, y |-> JUndefined]
SelectFrame(c) == [Frame("select") EXCEPT !.character = c]
MoveFrame(jx, jy) ==
  [Frame("move") EXCEPT !.hasPosition = TRUE, !.x = jx, !.y = jy]

\* The limiter's window after a frame arrives at time t: the count restarts
\* when at least RATE_WINDOW_MS have passed since the window began.
WindowReset_Never(sock, t) == FALSE
WindowReset(sock, t) == t - sock.lastTick >= RATE_WINDOW_MS
Counted(sock, t) ==
  IF WindowReset(sock, t)
  THEN [sock EXCEPT !.msgCount = 1, !.lastTick = t]
  ELSE [sock EXCEPT !.msgCount = sock.msgCount + 1]
OverLimit_OffByOne(sock) == sock.msgCount > MAX_MSGS_PER_SEC + 1
OverLimit(sock) == sock.msgCount > MAX_MSGS_PER_SEC

\* The result of a handler body: the store, what was broadcast, and whether
\* an exception escaped.
Outcome(P, K, ev, threw) == [players |-> P, keys |-> K, events |-> ev, threw |-> threw]
Nothing == Outcome(players, playerKeys, <<>>, FALSE)

\* if (data.type === "select")
DoSelect(id, frame) ==
  IF id \notin DOMAIN players
  THEN Outcome(players, playerKeys, <<>>, TRUE)
  ELSE LET chosen == frame.character
           p == [players[id] EXCEPT
                   !.character = IF chosen = "" THEN "knight" ELSE chosen]
       IN Outcome([players EXCEPT ![id] = p], playerKeys,
                  <<[type |-> "spawn", id |-> id, state |-> p]>>,
                  SendThrows({}))

\* if (data.type === "move" && data.position && players[playerId])
DoMove(id, frame) ==
  LET rx == ToNumber(frame.x)
      ry == ToNumber(frame.y)
  IN IF ~rx.finite \/ ~ry.finite
     THEN Nothing
     ELSE LET px == MOVE_CLAMP(rx.v, ARENA.padding, ARENA.width - ARENA.padding)
              py == MOVE_CLAMP(ry.v, ARENA.padding, ARENA.height - ARENA.padding)
          IN Outcome([players EXCEPT ![id].x = px, ![id].y = py], playerKeys,
                     <<[type |-> "update", id |-> id,
                        position |-> [x |-> px, y |-> py]]>>,
                     SendThrows({}))

\* target.hp = Math.max(0, (target.hp || 100) - DMG)
Damaged_NoFloor(hp) == (IF hp = 0 THEN FULL_HP ELSE hp) - DMG
Damaged(hp) == Max(0, (IF hp = 0 THEN FULL_HP ELSE hp) - DMG)

\* target.lives = Math.max(0, (target.lives ?? 2) - 1)
LivesAfterDeath_Zero(lives) == 0
LivesAfterDeath(lives) == Max(0, lives - 1)

\* The body of the forEach for one other player: st is the store, the key
\* order and the events so far; rnd holds the two Math.random() draws of a
\* respawn.
HitTarget(st, otherId, rnd) ==
  LET target == st.players[otherId]
      hp == Damaged(target.hp)
      damage == [type |-> "damage", id |-> otherId, hp |-> hp]
  IN IF hp > 0 \/ SendThrows({})
     THEN Outcome([st.players EXCEPT ![otherId].hp = hp], st.keys,
                  Append(st.events, damage), SendThrows({}))
     ELSE LET lives == LivesAfterDeath(target.lives)
          IN IF lives > 0
             THEN LET r == [target EXCEPT
                              !.lives = lives,
                              !.x = RandomCoord(rnd[1], ARENA.width),
                              !.y = RandomCoord(rnd[2], ARENA.height),
                              !.hp = FULL_HP]
                  IN Outcome([st.players EXCEPT ![otherId] = r], st.keys,
                             st.events \o
                               <<damage,
                                 [type |-> "dead", id |-> otherId,
                                  respawn |-> [x |-> r.x, y |-> r.y,
                                               hp |-> r.hp, lives |-> r.lives]]>>,
                             FALSE)
             ELSE Outcome(DeleteKey(st.players, otherId),
                          SeqWithout(st.keys, otherId),
                          st.events \o
                            <<damage,
                              [type |-> "eliminated", id |-> otherId],
                              [type |-> "remove", id |-> otherId]>>,
                          FALSE)

\* Object.keys(players).forEach(...): the keys as they were when the loop
\* began, in insertion order.
RECURSIVE AttackLoop(_, _, _, _)
AttackLoop(keys, st, me, rnd) ==
  IF keys = <<>> \/ st.threw THEN st
  ELSE LET otherId == Head(keys)
           attacker == st.players[me]
           next ==
             IF otherId = me \/ otherId \notin DOMAIN st.players
             THEN st
             ELSE IF InRange(attacker.x, attacker.y,
                             st.players[otherId].x, st.players[otherId].y)
                  THEN HitTarget(st, otherId, rnd[otherId])
                  ELSE st
       IN AttackLoop(Tail(keys), next, me, rnd)

\* if (now - (attacker.lastAttackAt || 0) < ATTACK_COOLDOWN_MS) return;
CoolingDown_Never(id, t) == FALSE
CoolingDown(id, t) == t - players[id].lastAttackAt < ATTACK_COOLDOWN_MS

\* if (data.type === "attack" && players[playerId])
DoAttack(id, t, rnd) ==
  IF CoolingDown(id, t)
  THEN Nothing
  ELSE AttackLoop(playerKeys,
                  Outcome([players EXCEPT ![id].lastAttackAt = t],
                          playerKeys, <<>>, FALSE),
                  id, rnd)

\* Whether this frame makes DoAttack run its loop.
AttackAccepted(s, frame) ==
  /\ frame.kind = "attack"
  /\ clients[s].playerId \in DOMAIN players
  /\ ~CoolingDown(clients[s].playerId, now)

\* The handler after the rate limiter let the frame through.
Dispatch(id, frame, rnd) ==
  CASE frame.kind = "garbage" -> Nothing
    [] frame.kind = "null" -> Outcome(players, playerKeys, <<>>, TRUE)
    [] frame.kind = "select" -> DoSelect(id, frame)
    [] frame.kind = "move" /\ frame.hasPosition /\ id \in DOMAIN players ->
         DoMove(id, frame)
    [] frame.kind = "attack" /\ id \in DOMAIN players -> DoAttack(id, now, rnd)
    [] OTHER -> Nothing

OnMessage(s, frame, rnd) ==
  /\ ~crashed
  /\ s \in LiveSessions
  /\ ~clients[s].destroyed
  /\ LET sock == Counted(clients[s], now)
         res == Dispatch(sock.playerId, frame, rnd)
     IN
     /\ msgLog' = [msgLog EXCEPT ![s] = Logged(msgLog[s], now)]
     /\ IF OverLimit(sock)
        THEN /\ clients' = [clients EXCEPT ![s] = denyAndClose(sock, CODE_RATE)]
             /\ sent' = ErrorTo(s, sock, CODE_RATE)
             /\ broadcasts' = <<>>
             /\ UNCHANGED <<players, playerKeys, crashed, lastAccepted,
                            eliminated, removed>>
        ELSE /\ clients' = [clients EXCEPT ![s] = sock]
             /\ sent' = <<>>
             /\ players' = res.players
             /\ playerKeys' = res.keys
             /\ broadcasts' = res.events
             /\ crashed' = res.threw
             /\ lastAccepted' = IF AttackAccepted(s, frame)
                                THEN [lastAccepted EXCEPT ![s] = now]
                                ELSE lastAccepted
             /\ eliminated' = eliminated \cup
                   {res.events[i].id : i \in
                      {j \in DOMAIN res.events :
                         res.events[j].type = "eliminated"}}
             /\ removed' = Tally(removed, res.events)
  /\ UNCHANGED <<now, PERMANENT_BLOCK_PER_IP, seenIPs, activeIPMap, nextBeat>>

\* ------------------------------------------------------------------------
\* Heartbeat
\* ------------------------------------------------------------------------
\* function heartbeat() { this.isAlive = true; }, registered for "pong" on
\* every socket before admission is decided.
OnPong(s) ==
  /\ ~crashed
  /\ s \in ServerClients
  /\ ~clients[s].destroyed
  /\ clients' = [clients EXCEPT ![s].isAlive = TRUE, ![s].unacked = FALSE]
  /\ broadcasts' = <<>>
  /\ sent' = <<>>
  /\ UNCHANGED <<now, PERMANENT_BLOCK_PER_IP, players, playerKeys, seenIPs,
                 activeIPMap, nextBeat, crashed, msgLog, lastAccepted,
                 eliminated, removed>>

\* One socket's turn in the interval callback: terminate() destroys the
\* transport at once and leaves the close to be emitted; otherwise the flag
\* is cleared and a ping is sent.
Probed_Hasty(sock) ==
  IF sock.readyState = "CLOSED" THEN sock
  ELSE [sock EXCEPT !.readyState = "CLOSING", !.destroyed = TRUE]
Probed(sock) ==
  IF sock.readyState = "CLOSED" THEN sock
  ELSE IF sock.isAlive = FALSE
       THEN [sock EXCEPT !.readyState = "CLOSING", !.destroyed = TRUE]
       ELSE [sock EXCEPT !.isAlive = FALSE, !.unacked = TRUE]

\* setInterval(() => server.clients.forEach(...), HEARTBEAT_MS)
HeartbeatTick ==
  /\ ~crashed
  /\ now >= nextBeat
  /\ nextBeat' = nextBeat + HEARTBEAT_MS
  /\ clients' = [s \in DOMAIN clients |-> Probed(clients[s])]
  /\ broadcasts' = <<>>
  /\ sent' = <<>>
  /\ UNCHANGED <<now, PERMANENT_BLOCK_PER_IP, players, playerKeys, seenIPs,
                 activeIPMap, crashed, msgLog, lastAccepted, eliminated,
                 removed>>

\* ------------------------------------------------------------------------
\* Inputs
\* ------------------------------------------------------------------------
Addr(mapped, a) == [mapped |-> mapped, addr |-> a]
Request(xfwd, remote) == [xfwd |-> xfwd, remoteAddress |-> remote]
Requests ==
  {Request(<<>>, Addr(FALSE, "10.0.0.1")),
   Request(<<>>, Addr(TRUE, "10.0.0.1")),
   Request(<<>>, Addr(FALSE, "10.0.0.2")),
   Request(<<Addr(FALSE, "10.0.0.3"), Addr(FALSE, "10.0.0.1")>>,
           Addr(FALSE, "10.0.0.2")),
   Request(<<Addr(FALSE, "")>>, Addr(FALSE, "10.0.0.3")),
   Request(<<Addr(TRUE, "")>>, Addr(FALSE, "10.0.0.2"))}

MoveFrames ==
  {MoveFrame(JNum(-100), JNull),
   MoveFrame(JNum(230), JNumStr(240)),
   MoveFrame(JNum(5000), JNum(5000)),
   MoveFrame(JUndefined, JNum(300)),
   MoveFrame(JNum(300), JHuge),
   Frame("move")}
AttackFrame == Frame("attack")
HealFrame == Frame("heal")
OtherFrames ==
  {Frame("garbage"), Frame("null"), Frame("scalar"), Frame("other"),
   SelectFrame(""), SelectFrame("mage"), HealFrame}
Frames == MoveFrames \cup OtherFrames

NoDraws == [id \in DOMAIN players |-> <<0, 0>>]

\* A client that keeps to `burst` frames per limiter window.
WithinBurst(s, burst) == Counted(clients[s], now).msgCount <= burst

\* The environment's steps, over the inputs a scenario follows.
ConnectStep(conns, Q, R) ==
  \E req \in Q, ux \in R, uy \in R :
    Len(clients) < conns /\ Connection(req, ux, uy)
FrameStep(F, burst) ==
  \E s \in Sockets, f \in F :
    WithinBurst(s, burst) /\ OnMessage(s, f, NoDraws)
\* The targets an attack from player a would send to a respawn: only for
\* them does the handler call Math.random().
Respawning(a) ==
  IF a \notin DOMAIN players THEN {}
  ELSE {t \in DOMAIN players \ {a} :
          /\ InRange(players[a].x, players[a].y, players[t].x, players[t].y)
          /\ Damaged(players[t].hp) = 0
          /\ LivesAfterDeath(players[t].lives) > 0}
AttackStep(R, burst) ==
  \E s \in Sockets :
    \E draws \in [Respawning(clients[s].playerId) -> R \X R] :
      /\ WithinBurst(s, burst)
      /\ OnMessage(s, AttackFrame,
                   [id \in DOMAIN players |->
                      IF id \in DOMAIN draws THEN draws[id] ELSE <<0, 0>>])
CloseStep == \E s \in Sockets : OnClose(s)
PongStep == \E s \in Sockets : OnPong(s)
\* The clock moves by d until `horizon`.
TickStep(D, horizon) == \E d \in D : now + d <= horizon /\ Tick(d)
\* The clock jumps to the instant the heartbeat is due.
TickToBeat(beats) ==
  /\ now < nextBeat
  /\ nextBeat <= StartTime + beats * HEARTBEAT_MS
  /\ Tick(nextBeat - now)

\* --- The server from its start -------------------------------------------
Steps == {500}
BasicFrames == {MoveFrame(JNum(230), JNumStr(240)), Frame("garbage")}

Next ==
  \/ ConnectStep(MaxConns, Requests, Rand)
  \/ FrameStep(BasicFrames, MaxBurst)
  \/ AttackStep(Rand, MaxBurst)
  \/ CloseStep
  \/ PongStep
  \/ HeartbeatTick
  \/ TickStep(Steps, StartTime + MaxElapsed)
  \/ TickToBeat(MaxBeats)

\* Single-session policy, as the source sets the option.
Spec == Init /\ [][Next]_vars

\* --- Admission: clients that come, go and come back ------------------------
\* Connection attempts followed.
AdmConns == 3
\* One IP in three spellings, and the header that leaves no IP at all.
AdmRequests ==
  {Request(<<>>, Addr(FALSE, "10.0.0.1")),
   Request(<<>>, Addr(TRUE, "10.0.0.1")),
   Request(<<Addr(FALSE, "10.0.0.1")>>, Addr(FALSE, "10.0.0.2")),
   Request(<<Addr(TRUE, "")>>, Addr(FALSE, "10.0.0.2"))}

NextAdmission ==
  \/ ConnectStep(AdmConns, AdmRequests, {0})
  \/ FrameStep({Frame("garbage")}, MaxBurst)
  \/ CloseStep
  \/ TickStep(Steps, StartTime + MaxElapsed)

\* Single-session policy, as the source sets the option.
SpecAdmission == Init /\ [][NextAdmission]_vars
\* Permanent-block policy.
SpecPermanent == InitPermanent /\ [][NextAdmission]_vars

\* --- Cooldown: players that attack as fast as they can ---------------------
\* Attack frames followed per limiter window.
CooldownBurst == 2

NextCooldown ==
  \/ ConnectStep(MaxConns, Requests, {0})
  \/ AttackStep({0}, CooldownBurst)
  \/ CloseStep
  \/ TickStep(Steps, StartTime + MaxElapsed)

SpecCooldown == Init /\ [][NextCooldown]_vars

\* --- The rate limiter: clients that flood ---------------------------------
\* Connections followed, and frames followed beyond the limit.
RateConns == 1
MaxOver == 2
RateRequests ==
  {Request(<<>>, Addr(FALSE, "10.0.0.1")),
   Request(<<>>, Addr(FALSE, "10.0.0.2"))}
RateFrames == {MoveFrame(JNum(5000), JNum(-100)), Frame("garbage")}

NextRate ==
  \/ ConnectStep(RateConns, RateRequests, {0})
  \/ FrameStep(RateFrames, MAX_MSGS_PER_SEC + MaxOver)
  \/ CloseStep
  \/ TickStep(Steps, StartTime + RATE_WINDOW_MS)

SpecRate == Init /\ [][NextRate]_vars

\* --- Combat: two players in the middle of a fight --------------------------
\* The attacker connected at StartTime from 10.0.0.1, the target one step
\* later from 10.0.0.2, both spawned on the draw 0; the attacker then sent
\* one attack per step, h of them, each a hit, and both have been silent
\* since.  The state is computed by the handlers' own operators.
CombatHits == {0, 6, 13}
\* Clock readings followed from there.
CombatElapsed == 500
\* Connection attempts in all, the two players included.
CombatConns == 3

AttackerId == StartTime
TargetId == StartTime + 500
CombatNow == StartTime + 500 * 13 + RATE_WINDOW_MS

FreshSocket(ip, t) ==
  [ip |-> ip, readyState |-> "OPEN", closeCode |-> 0, destroyed |-> FALSE,
   admitted |-> TRUE, closedAfter |-> 0, unacked |-> FALSE,
   sendFails |-> FALSE, msgCount |-> 0, lastTick |-> t, isAlive |-> TRUE,
   playerId |-> t, playerIP |-> ip]

RECURSIVE SocketAfter(_, _, _)
SocketAfter(sock, j, h) ==
  IF j > h THEN sock
  ELSE SocketAfter(Counted(sock, StartTime + 500 * j), j + 1, h)

RECURSIVE StoreAfter(_, _, _)
StoreAfter(st, j, h) ==
  IF j > h THEN st
  ELSE StoreAfter(
         AttackLoop(st.keys,
                    Outcome([st.players EXCEPT
                               ![AttackerId].lastAttackAt = StartTime + 500 * j],
                            st.keys, <<>>, FALSE),
                    AttackerId,
                    [id \in DOMAIN st.players |-> <<0, 0>>]),
         j + 1, h)

CombatStore(h) ==
  StoreAfter(
    Outcome([id \in {AttackerId, TargetId} |-> NewPlayer(0, 0)],
            <<AttackerId, TargetId>>, <<>>, FALSE),
    1, h)

CombatStart(h) ==
    /\ now = CombatNow
    /\ PERMANENT_BLOCK_PER_IP = FALSE
    /\ clients = <<SocketAfter(FreshSocket("10.0.0.1", AttackerId), 1, h),
                   FreshSocket("10.0.0.2", TargetId)>>
    /\ players = CombatStore(h).players
    /\ playerKeys = CombatStore(h).keys
    /\ seenIPs = {}
    /\ activeIPMap = [ip \in {"10.0.0.1", "10.0.0.2"} |->
                        IF ip = "10.0.0.1" THEN 1 ELSE 2]
    /\ nextBeat = StartTime + HEARTBEAT_MS
    /\ crashed = FALSE
    /\ broadcasts = <<>>
    /\ sent = <<>>
    /\ msgLog = << <<>>, <<>> >>
    /\ lastAccepted = <<IF h = 0 THEN -1 ELSE StartTime + 500 * h, -1>>
    /\ eliminated = {}
    /\ removed = <<>>

InitCombat == \E h \in CombatHits : CombatStart(h)

CombatFrames ==
  {MoveFrame(JNum(230), JNumStr(240)), MoveFrame(JNum(5000), JNum(-100)),
   HealFrame, SelectFrame("")}

NextCombat ==
  \/ ConnectStep(CombatConns, Requests, Rand)
  \/ FrameStep(CombatFrames, MaxBurst)
  \/ AttackStep(Rand, MaxBurst)
  \/ CloseStep
  \/ TickStep(Steps, CombatNow + CombatElapsed)

SpecCombat == InitCombat /\ [][NextCombat]_vars

\* The replay that leads from the server's start to the combat states: the
\* two connections, the attacker's attacks and the clock.
NextReplay ==
  \/ \E req \in {Request(<<>>, Addr(FALSE, "10.0.0.1")),
                 Request(<<>>, Addr(FALSE, "10.0.0.2"))} :
       Len(clients) < 2 /\ Connection(req, 0, 0)
  \/ \E s \in Sockets \cap {1} :
       WithinBurst(s, 2) /\ OnMessage(s, AttackFrame, NoDraws)
  \/ TickStep(Steps, CombatNow)

SpecReplay == Init /\ [][NextReplay]_vars
ReplayMissesCombat6 == ~CombatStart(6)
ReplayMissesCombat13 == ~CombatStart(13)

\* ------------------------------------------------------------------------
\* Properties
\* ------------------------------------------------------------------------
\* A step in which a connection arrives, and the socket it brings.
Arrived == Len(clients') = Len(clients) + 1
Newcomer == clients'[Len(clients')]
\* The step in which the close handler of socket s runs.
Closes(s) ==
  /\ s \in ServerClients
  /\ clients'[s].readyState = "CLOSED"

\* C1: under the single-session policy no IP has two live sessions at once;
\* a connection from an IP that has a live session is denied with code 4002
\* and leaves the store alone, and a connection from an IP whose session
\* has closed (or that has none) is admitted.
C1_SingleSession ==
  [][ /\ \A s, t \in LiveSessions' :
           clients'[s].playerIP = clients'[t].playerIP => s = t
      /\ Arrived =>
           IF \E s \in LiveSessions : clients[s].playerIP = Newcomer.ip
           THEN /\ ~Newcomer.admitted
                /\ Newcomer.readyState = "CLOSING"
                /\ Newcomer.closeCode = CODE_ACTIVE
                /\ players' = players
                /\ playerKeys' = playerKeys
           ELSE /\ Newcomer.admitted
                /\ Newcomer.readyState = "OPEN"
                /\ Newcomer.playerId \in DOMAIN players'
    ]_vars

\* C3: under the permanent-block policy a connection from an IP that was
\* admitted before, whether that session still lives or not, is denied with
\* code 4001 and creates no player; any other connection is admitted.
C3_PermanentBlock ==
  [][ Arrived =>
        IF \E s \in Sockets :
             clients[s].admitted /\ clients[s].ip = Newcomer.ip
        THEN /\ ~Newcomer.admitted
             /\ Newcomer.readyState = "CLOSING"
             /\ Newcomer.closeCode = CODE_PERMANENT
             /\ players' = players
             /\ playerKeys' = playerKeys
        ELSE /\ Newcomer.admitted
             /\ Newcomer.playerId \in DOMAIN players'
    ]_vars

\* An IP's session is closed and two attempts after the close were both
\* turned away with 4001.
C3_DeniedAfterClose ==
  \E s1, s2, s3 \in Sockets :
    /\ PERMANENT_BLOCK_PER_IP
    /\ clients[s1].admitted
    /\ clients[s1].readyState = "CLOSED"
    /\ clients[s1].closedAfter < s2 /\ s2 < s3
    /\ \A d \in {s2, s3} :
         /\ clients[d].ip = clients[s1].ip
         /\ clients[d].closeCode = CODE_PERMANENT
         /\ ~clients[d].admitted

\* C2: an activeIPMap entry is created by an admitted session for its own
\* IP, every session that has not closed holds its IP's entry (its player
\* being eliminated changes nothing), and the entry goes away or changes
\* only in the step in which that very session's close handler runs.
C2_SlotHeldUntilClose ==
  [][ /\ \A ip \in DOMAIN activeIPMap :
           (ip \notin DOMAIN activeIPMap' \/ activeIPMap'[ip] # activeIPMap[ip])
             => Closes(activeIPMap[ip]) /\ ip \notin DOMAIN activeIPMap'
      /\ \A ip \in DOMAIN activeIPMap' :
           /\ clients'[activeIPMap'[ip]].admitted
           /\ clients'[activeIPMap'[ip]].playerIP = ip
      /\ \A s \in LiveSessions' :
           /\ clients'[s].playerIP \in DOMAIN activeIPMap'
           /\ activeIPMap'[clients'[s].playerIP] = s
    ]_vars

\* A spectator: the session is open, its player was eliminated (no other
\* session carries its identity, so no close removed it), its IP's entry is
\* still its own, and an attempt from the same IP has been turned away.
C2_SpectatorKeepsSlot ==
  \E s, d \in Sockets :
    /\ s \in LiveSessions
    /\ clients[s].readyState = "OPEN"
    /\ clients[s].playerId \in eliminated
    /\ clients[s].playerId \notin DOMAIN players
    /\ activeIPMap[clients[s].playerIP] = s
    /\ d > s
    /\ clients[d].ip = clients[s].playerIP
    /\ clients[d].closeCode = CODE_ACTIVE
    /\ clients[d].readyState = "CLOSED"

\* The step in which a frame from socket s is handled.
Received(s) == now' = now /\ msgLog'[s] # msgLog[s]
\* Frames socket s sent in the 1000 ms that end with the frame just handled.
InLastSecond(s) == SumOver(msgLog'[s], DOMAIN msgLog'[s])
\* Frames socket s sent since its limiter window began.
InWindow(s) ==
  SumOver(msgLog'[s], {b \in DOMAIN msgLog'[s] : b >= clients'[s].lastTick})
\* The frame just handled left the store and the other clients alone.
NotApplied ==
  /\ players' = players
  /\ playerKeys' = playerKeys
  /\ broadcasts' = <<>>

\* C4, as the specification states it: a frame that is one of more than
\* 40 its connection sent within 1000 ms closes the connection with code
\* 4003 and is not applied.
C4_RollingWindow ==
  [][ \A s \in Sockets :
        Received(s) /\ InLastSecond(s) > MAX_MSGS_PER_SEC =>
          /\ clients'[s].readyState # "OPEN"
          /\ clients'[s].closeCode = CODE_RATE
          /\ NotApplied
    ]_vars

\* C4, amended: the limiter counts per window; a window begins with the
\* connection, or with the first frame that arrives 1000 ms or more after
\* the window before it began.  The counter is the number of frames of the
\* window, the 41st and later frames of a window close the connection with
\* code 4003 and are not applied, and a frame within the first 40 of its
\* window does not close it.
C4_FixedWindow ==
  [][ \A s \in Sockets :
        Received(s) =>
          /\ clients'[s].lastTick =
                IF now - clients[s].lastTick >= RATE_WINDOW_MS
                THEN now ELSE clients[s].lastTick
          /\ clients'[s].msgCount = InWindow(s)
          /\ InWindow(s) > MAX_MSGS_PER_SEC =>
                /\ clients'[s].readyState # "OPEN"
                /\ clients'[s].closeCode = CODE_RATE
                /\ NotApplied
          /\ InWindow(s) <= MAX_MSGS_PER_SEC =>
                /\ clients'[s].readyState = clients[s].readyState
                /\ clients'[s].closeCode = clients[s].closeCode
    ]_vars

\* The 41st frame of a window has just closed its connection with 4003.
C4_Flooded ==
  \E s \in Sockets :
    /\ clients[s].msgCount = MAX_MSGS_PER_SEC + 1
    /\ clients[s].readyState = "CLOSING"
    /\ clients[s].closeCode = CODE_RATE
    /\ sent = <<[to |-> s, type |-> "error", code |-> CODE_RATE]>>

\* C5: every player in the store has x within [padding, width - padding]
\* and y within [padding, height - padding], whether the position comes
\* from the spawn, a move or a respawn.
C5_InsideArena ==
  \A id \in DOMAIN players :
    /\ players[id].x \in ARENA.padding .. (ARENA.width - ARENA.padding)
    /\ players[id].y \in ARENA.padding .. (ARENA.height - ARENA.padding)

\* A move far outside the arena has left a player on its corner.
C5_AtTheCorner ==
  \E id \in DOMAIN players :
    /\ players[id].x = ARENA.width - ARENA.padding
    /\ players[id].y = ARENA.padding

\* The players whose accepted attack this step handles.
Attackers ==
  {a \in DOMAIN players \cap DOMAIN players' :
     /\ now' = now
     /\ players'[a].lastAttackAt = now
     /\ players[a].lastAttackAt # now}
\* The players within range of a when the step began.
Hits(a) ==
  {t \in DOMAIN players \ {a} :
     (players[a].x - players[t].x) * (players[a].x - players[t].x)
       + (players[a].y - players[t].y) * (players[a].y - players[t].y)
       <= ATTACK_RANGE * ATTACK_RANGE}
\* The events of this step of one type, and the players they are about.
EventsOf(type) == {i \in DOMAIN broadcasts' : broadcasts'[i].type = type}
About(type) == {broadcasts'[i].id : i \in EventsOf(type)}

\* C6: an accepted attack hits exactly the other players within range, once
\* each; the damage event of a hit carries the target's hp before the hit
\* less 15, floored at 0, and that is the hp the target is left with (before
\* a death is resolved); nothing else emits a damage event.
C6_FlatDamage ==
  [][ /\ \A i \in EventsOf("damage") :
           LET e == broadcasts'[i] IN
           /\ e.id \in DOMAIN players
           /\ e.hp = Max(0, players[e.id].hp - DMG)
           /\ e.hp >= 0
           /\ e.hp > 0 => players'[e.id].hp = e.hp
           /\ \A j \in EventsOf("damage") : broadcasts'[j].id = e.id => j = i
      /\ \A a \in Attackers : About("damage") = Hits(a)
      /\ Attackers = {} => About("damage") = {}
    ]_vars

\* One attack has hit two targets: one went from 100 to 85, the other from
\* 10 to the floor.
C6_TwoHits ==
  \E i, j \in DOMAIN broadcasts :
    /\ broadcasts[i].type = "damage" /\ broadcasts[i].hp = FULL_HP - DMG
    /\ players[broadcasts[i].id].hp = FULL_HP - DMG
    /\ broadcasts[j].type = "damage" /\ broadcasts[j].hp = 0

\* The hit of this step took the last life of player id.
EliminatedNow(id) ==
  /\ players[id].lives = 1
  /\ id \in About("eliminated")
\* The close handler of a session that carries identity id runs in this step.
ClosedNow(id) ==
  \E s \in Sockets :
    clients[s].admitted /\ clients[s].playerId = id /\ Closes(s)

\* C7, as the specification states it: lives never increases, and an entry
\* leaves the store exactly when a hit takes its last life.
C7_RemovedOnlyAtZeroLives ==
  [][ \A id \in DOMAIN players :
        /\ id \in DOMAIN players' =>
             /\ players'[id].lives <= players[id].lives
             /\ players'[id].lives > 0
        /\ id \notin DOMAIN players' <=> EliminatedNow(id)
    ]_vars

\* C7, amended: no message, close or heartbeat handler increases the lives
\* of an entry (an admission creates its entry with 2 lives), no entry stays
\* in the store with 0 lives, and an entry leaves the store exactly when a
\* hit takes its last life or when the close handler of a session carrying
\* its identity runs.
C7_RemovedAtZeroLivesOrClose ==
  [][ /\ \A id \in DOMAIN players :
           /\ id \in DOMAIN players' /\ ~(Arrived /\ Newcomer.playerId = id) =>
                players'[id].lives <= players[id].lives
           /\ id \notin DOMAIN players' <=> EliminatedNow(id) \/ ClosedNow(id)
      /\ \A id \in DOMAIN players' : players'[id].lives > 0
      /\ Arrived /\ Newcomer.admitted =>
           players'[Newcomer.playerId].lives = START_LIVES
    ]_vars

\* A hit has just taken a player's last life: its three events went out,
\* its entry is gone and its session is still open.
C7_LastLifeTaken ==
  \E s \in LiveSessions :
    LET id == clients[s].playerId IN
    /\ id \notin DOMAIN players
    /\ [type |-> "eliminated", id |-> id] \in
         {broadcasts[i] : i \in DOMAIN broadcasts}

\* C8: a heal frame from a player with one life left and hp below 100 sets
\* its hp to 100 and broadcasts a healed event with its id and hp; a heal
\* frame in any other case changes nothing and broadcasts nothing.
C8_HealRestores ==
  [][ \A s \in LiveSessions :
        LET id == clients[s].playerId IN
        /\ id \in DOMAIN players
        /\ WithinBurst(s, MaxBurst)
        /\ OnMessage(s, HealFrame, NoDraws)
        => IF players[id].lives = 1 /\ players[id].hp < FULL_HP
           THEN /\ players'[id].hp = FULL_HP
                /\ [type |-> "healed", id |-> id, hp |-> FULL_HP] \in
                     {broadcasts'[i] : i \in DOMAIN broadcasts'}
           ELSE NotApplied
    ]_vars

\* C9: an attack frame that arrives less than 500 ms after the last
\* accepted attack of the same attacker changes no player and broadcasts
\* nothing.
C9_CooldownNoOp ==
  [][ \A s \in LiveSessions :
        /\ lastAccepted[s] >= 0
        /\ now - lastAccepted[s] < ATTACK_COOLDOWN_MS
        /\ WithinBurst(s, CooldownBurst)
        /\ OnMessage(s, AttackFrame, NoDraws)
        => NotApplied
    ]_vars

C11_RespawnAfterFirstDeath ==
  [][ \A i \in EventsOf("damage") :
        LET id == broadcasts'[i].id IN
        broadcasts'[i].hp = 0 /\ players[id].lives = START_LIVES =>
          /\ id \in DOMAIN players'
          /\ players'[id].lives = START_LIVES - 1
          /\ players'[id].hp = FULL_HP
          /\ players'[id].x \in ARENA.padding .. (ARENA.width - ARENA.padding)
          /\ players'[id].y \in ARENA.padding .. (ARENA.height - ARENA.padding)
          /\ i + 1 \in DOMAIN broadcasts'
          /\ broadcasts'[i + 1] =
               [type |-> "dead", id |-> id,
                respawn |-> [x |-> players'[id].x, y |-> players'[id].y,
                             hp |-> players'[id].hp,
                             lives |-> players'[id].lives]]
          /\ \A j \in EventsOf("dead") : broadcasts'[j].id = id => j = i + 1
          /\ id \notin About("eliminated")
          /\ id \notin About("remove")
    ]_vars

\* A target has just lost its first life and respawned away from the spot
\* where it was hit.
C11_Respawned ==
  \E i \in DOMAIN broadcasts :
    /\ broadcasts[i].type = "dead"
    /\ broadcasts[i].id \in DOMAIN players
    /\ players[broadcasts[i].id].lives = 1
    /\ players[broadcasts[i].id].hp = FULL_HP
    /\ broadcasts[i].respawn.x = players[broadcasts[i].id].x
    /\ broadcasts[i].respawn.x # ARENA.padding

\* C12: no identity ever has more than one remove event broadcast for it,
\* whatever the order of eliminations and closes (explicit, after a
\* rate-limit close or after a termination); a close handler that finds its
\* player entry gone broadcasts nothing, and no close handler raises.
C12_SingleRemove ==
  [][ /\ \A id \in DOMAIN removed' : removed'[id] <= 1
      /\ \A s \in Sockets :
           Closes(s) =>
             /\ crashed' = crashed
             /\ clients[s].playerId \notin DOMAIN players => broadcasts' = <<>>
    ]_vars

\* The same for the sessions whose identity no other session carries.
SingleRemoveUnshared ==
  \A s \in Sockets :
    (/\ clients[s].admitted
     /\ \A o \in Sockets \ {s} : clients[o].playerId # clients[s].playerId
     /\ clients[s].playerId \in DOMAIN removed)
    => removed[clients[s].playerId] <= 1

\* --- Liveness monitor: clients that answer the probes, or do not -----------
\* Heartbeat ticks followed, and connection attempts followed.
HeartBeats == 2
HbConns == 2
HbRequests ==
  {Request(<<>>, Addr(FALSE, "10.0.0.1")),
   Request(<<Addr(TRUE, "")>>, Addr(FALSE, "10.0.0.2"))}

NextHeartbeat ==
  \/ ConnectStep(HbConns, HbRequests, {0})
  \/ PongStep
  \/ HeartbeatTick
  \/ CloseStep
  \/ TickToBeat(HeartBeats)

SpecHeartbeat == Init /\ [][NextHeartbeat]_vars

\* The step in which the heartbeat interval fires.
Beat == nextBeat' # nextBeat
\* What the close handler of an admitted socket s must leave behind.
TornDown(s) ==
  /\ clients[s].playerId \notin DOMAIN players'
  /\ clients[s].playerId \in DOMAIN players =>
       broadcasts' = <<[type |-> "remove", id |-> clients[s].playerId]>>
  /\ clients[s].playerIP \notin DOMAIN activeIPMap'

\* C13: a heartbeat tick terminates exactly the connections from which no
\* pong arrived since an earlier tick probed them, and nothing else
\* terminates a connection; the close of a terminated session removes its
\* player entry, with a remove event if it was still there, and releases
\* its IP slot, as an explicit close does.
C13_TerminatedWhenUnanswered ==
  [][ /\ Beat =>
           \A s \in ServerClients :
             ~clients[s].destroyed =>
               (clients'[s].destroyed <=> clients[s].unacked)
      /\ ~Beat => \A s \in Sockets : clients'[s].destroyed = clients[s].destroyed
      /\ \A s \in LiveSessions :
           Closes(s) /\ clients[s].destroyed => TornDown(s)
    ]_vars

\* The same, leaving aside the sessions whose IP is the empty string.
TerminatedWhenUnansweredNamed ==
  [][ /\ Beat =>
           \A s \in ServerClients :
             ~clients[s].destroyed =>
               (clients'[s].destroyed <=> clients[s].unacked)
      /\ ~Beat => \A s \in Sockets : clients'[s].destroyed = clients[s].destroyed
      /\ \A s \in LiveSessions :
           Closes(s) /\ clients[s].destroyed /\ clients[s].playerIP # "" =>
             TornDown(s)
    ]_vars

\* --- Frames: players that send every kind of frame -------------------------
NextFrames ==
  \/ ConnectStep(MaxConns, RateRequests, {0})
  \/ FrameStep(Frames, MaxBurst)
  \/ CloseStep
  \/ TickStep(Steps, StartTime + MaxElapsed)

SpecFrames == Init /\ [][NextFrames]_vars

\* The payloads that are not a message of the protocol: text that does not
\* parse, the JSON values null and scalars, an object of another type or of
\* none, and a move without position.
Malformed ==
  {Frame("garbage"), Frame("null"), Frame("scalar"), Frame("other"),
   Frame("move")}

\* C14: a malformed payload is dropped silently: the handler does not raise,
\* the store is unchanged, nothing is broadcast or sent, and the connection
\* stays as it was.
C14_MalformedDropped ==
  [][ \A s \in LiveSessions, f \in Malformed :
        WithinBurst(s, MaxBurst) /\ OnMessage(s, f, NoDraws) =>
          /\ ~crashed'
          /\ NotApplied
          /\ sent' = <<>>
          /\ clients'[s].readyState = clients[s].readyState
    ]_vars

\* The same for the malformed payloads other than the JSON text null.
MalformedDroppedButNull ==
  [][ \A s \in LiveSessions, f \in Malformed \ {Frame("null")} :
        WithinBurst(s, MaxBurst) /\ OnMessage(s, f, NoDraws) =>
          /\ ~crashed'
          /\ NotApplied
          /\ sent' = <<>>
          /\ clients'[s].readyState = clients[s].readyState
    ]_vars

\* clamp(v, lo, hi), each axis on its own.
Clamped(v, lo, hi) == IF v < lo THEN lo ELSE IF v > hi THEN hi ELSE v

\* C17: a move whose x and y both convert to finite numbers sets the
\* sender's position to the clamped pair, changes no other field and no
\* other player, and broadcasts one update event with that stored position;
\* a move with a non-finite x or y changes nothing and broadcasts nothing.
C17_MoveClamped ==
  [][ \A s \in LiveSessions, f \in MoveFrames :
        LET id == clients[s].playerId IN
        /\ f.hasPosition
        /\ id \in DOMAIN players
        /\ WithinBurst(s, MaxBurst)
        /\ OnMessage(s, f, NoDraws)
        => IF ToNumber(f.x).finite /\ ToNumber(f.y).finite
           THEN LET cx == Clamped(ToNumber(f.x).v, ARENA.padding,
                                  ARENA.width - ARENA.padding)
                    cy == Clamped(ToNumber(f.y).v, ARENA.padding,
                                  ARENA.height - ARENA.padding)
                IN /\ players' = [players EXCEPT ![id].x = cx, ![id].y = cy]
                   /\ playerKeys' = playerKeys
                   /\ broadcasts' = <<[type |-> "update", id |-> id,
                                       position |-> [x |-> cx, y |-> cy]]>>
           ELSE NotApplied
    ]_vars

\* A move to (5000, 5000) has just put a player on the far corner, clamped
\* on both axes, and the update event says so.
C17_FarCorner ==
  \E id \in DOMAIN players :
    /\ players[id].x = ARENA.width - ARENA.padding
    /\ players[id].y = ARENA.height - ARENA.padding
    /\ broadcasts = <<[type |-> "update", id |-> id,
                       position |-> [x |-> players[id].x,
                                     y |-> players[id].y]]>>

\* C15: no two admitted connections have the same identity, also when they
\* are admitted at the same clock reading; an admission never overwrites an
\* entry that is in the store, and a close never removes the entry of
\* another session.
C15_UniqueIdentity ==
  [][ /\ \A s, t \in DOMAIN clients' :
           (clients'[s].admitted /\ clients'[t].admitted /\ s # t)
             => clients'[s].playerId # clients'[t].playerId
      /\ Arrived /\ Newcomer.admitted =>
           Newcomer.playerId \notin DOMAIN players
      /\ \A s \in Sockets :
           Closes(s) =>
             \A o \in LiveSessions \ {s} :
               clients[o].playerId \in DOMAIN players =>
                 clients[o].playerId \in DOMAIN players'
    ]_vars

\* --- Broadcast: recipients whose transport has failed ----------------------
\* From now on a send to socket s throws.
SendBreaks(s) ==
  /\ ~crashed
  /\ s \in ServerClients
  /\ clients[s].readyState = "OPEN"
  /\ ~clients[s].sendFails
  /\ clients' = [clients EXCEPT ![s].sendFails = TRUE]
  /\ broadcasts' = <<>>
  /\ sent' = <<>>
  /\ UNCHANGED <<now, PERMANENT_BLOCK_PER_IP, players, playerKeys, seenIPs,
                 activeIPMap, nextBeat, crashed, msgLog, lastAccepted,
                 eliminated, removed>>

NextBroadcast ==
  \/ ConnectStep(CombatConns, RateRequests, {0})
  \/ \E s \in Sockets : SendBreaks(s)
  \/ FrameStep({MoveFrame(JNum(5000), JNum(-100))}, MaxBurst)
  \/ AttackStep({0}, MaxBurst)
  \/ CloseStep
  \/ TickStep(Steps, CombatNow + CombatElapsed)

SpecBroadcast == InitCombat /\ [][NextBroadcast]_vars

\* The socket whose close handler runs in this step, if one does.
Closing == {s \in Sockets : Closes(s)}

\* C16: when a recipient's send fails during a broadcast, no exception
\* leaves the handler, every other open connection gets every event of the
\* handler, and the handler does all its work: a hit that takes a target's
\* last life still deletes the entry and broadcasts the remove event.
C16_SendFailureContained ==
  [][ (SendThrows(Closing) /\ broadcasts' # <<>>) =>
        /\ ~crashed'
        /\ \A c \in Recipients(Closing) :
             ~clients[c].sendFails =>
               Delivered(c, broadcasts', Closing) = broadcasts'
        /\ \A i \in EventsOf("damage") :
             LET id == broadcasts'[i].id IN
             broadcasts'[i].hp = 0 /\ players[id].lives = 1 =>
               /\ id \notin DOMAIN players'
               /\ id \in About("remove")
    ]_vars

\* C18: a select, move, attack or heal frame from a spectator, a session
\* that is still open after its player was eliminated, is dropped silently:
\* the handler does not raise, the store is unchanged, nothing is broadcast
\* and the connection stays open.
C18_SpectatorDropped ==
  [][ \A s \in LiveSessions, f \in CombatFrames \cup {AttackFrame} :
        /\ clients[s].readyState = "OPEN"
        /\ clients[s].playerId \in eliminated
        /\ clients[s].playerId \notin DOMAIN players
        /\ WithinBurst(s, MaxBurst)
        /\ OnMessage(s, f, NoDraws)
        => /\ ~crashed'
           /\ NotApplied
           /\ sent' = <<>>
           /\ clients'[s].readyState = "OPEN"
    ]_vars

\* The same for the frames other than select.
SpectatorDroppedButSelect ==
  [][ \A s \in LiveSessions,
         f \in (CombatFrames \cup {AttackFrame}) \ {SelectFrame("")} :
        /\ clients[s].readyState = "OPEN"
        /\ clients[s].playerId \in eliminated
        /\ clients[s].playerId \notin DOMAIN players
        /\ WithinBurst(s, MaxBurst)
        /\ OnMessage(s, f, NoDraws)
        => /\ ~crashed'
           /\ NotApplied
           /\ sent' = <<>>
           /\ clients'[s].readyState = "OPEN"
    ]_vars

\* C19: after a handler has run to completion every entry of the store has
\* 0 < hp <= 100 and 1 or 2 lives: the attack handler turns hp 0 into a
\* respawn with hp 100 or into the deletion of the entry before it returns.
C19_HpAndLivesInRange ==
  ~crashed =>
    \A id \in DOMAIN players :
      /\ players[id].hp \in 1 .. FULL_HP
      /\ players[id].lives \in {1, START_LIVES}

\* An attack has just taken one target to hp 0, as its damage event says,
\* and the store holds that target with hp 100 and its last life.
C19_ZeroResolved ==
  \E i \in DOMAIN broadcasts :
    /\ broadcasts[i].type = "damage"
    /\ broadcasts[i].hp = 0
    /\ broadcasts[i].id \in DOMAIN players
    /\ players[broadcasts[i].id].hp = FULL_HP
    /\ players[broadcasts[i].id].lives = 1
    /\ ~crashed

\* The squared distance between two store entries when the step began.
Dist2(a, t) ==
  (players[a].x - players[t].x) * (players[a].x - players[t].x)
    + (players[a].y - players[t].y) * (players[a].y - players[t].y)

\* C20: an accepted attack hits every other player at distance 50 or less
\* from the attacker, once, and nobody else: the attacker's entry changes
\* in lastAttackAt only, the entries farther than 50 do not change at all,
\* and the damage, dead, eliminated and remove events are about players it
\* hit.
C20_HitsWithinRange ==
  [][ \A a \in Attackers :
        LET hit == {t \in DOMAIN players \ {a} :
                      Dist2(a, t) <= ATTACK_RANGE * ATTACK_RANGE}
        IN
        /\ a \in DOMAIN players'
        /\ players'[a] = [players[a] EXCEPT !.lastAttackAt = now]
        /\ \A p \in DOMAIN players \ (hit \cup {a}) :
             p \in DOMAIN players' /\ players'[p] = players[p]
        /\ \A t \in hit :
             /\ Cardinality({i \in EventsOf("damage") :
                               broadcasts'[i].id = t}) = 1
             /\ t \notin DOMAIN players' \/ players'[t].hp # players[t].hp
        /\ \A i \in DOMAIN broadcasts' :
             /\ broadcasts'[i].type \in {"damage", "dead", "eliminated", "remove"}
             /\ broadcasts'[i].id \in hit
    ]_vars

\* An attack has just hit a target exactly 50 away and left alone a player
\* farther away.
C20_BoundaryHit ==
  \E a, t, f \in DOMAIN players :
    /\ players[a].lastAttackAt = now
    /\ (players[a].x - players[t].x) * (players[a].x - players[t].x)
         + (players[a].y - players[t].y) * (players[a].y - players[t].y)
         = ATTACK_RANGE * ATTACK_RANGE
    /\ [type |-> "damage", id |-> t, hp |-> players[t].hp] \in
         {broadcasts[i] : i \in DOMAIN broadcasts}
    /\ (players[a].x - players[f].x) * (players[a].x - players[f].x)
         > ATTACK_RANGE * ATTACK_RANGE
    /\ players[f].hp = FULL_HP
    /\ \A i \in DOMAIN broadcasts : broadcasts[i].id # f

====
